---- MODULE Spec2Model ----
(***************************************************************************)
(* A model of the dates_str crate: the validated scalars Year/Month/Day,   *)
(* the DateStr aggregate, the two ISO parsers, the Display rendering, the  *)
(* DateFormat template, the scalar additions and subtractions and the     *)
(* addition of two dates.                                                  *)
(*                                                                         *)
(* Text is a sequence of one-character strings, so that splitting,         *)
(* parsing and rendering are computed character by character.  A state is  *)
(* the record of the latest library call: the operation, its inputs and    *)
(* its outcome.  A call either returns (Ok / Err) or panics.               *)
(***************************************************************************)
EXTENDS Integers, Sequences, FiniteSets, TLC

VARIABLES
    op,      \* the operation called last
    input,   \* its text input (a string), <<>> when it takes none
    args,    \* its other inputs
    result,  \* its outcome
    src      \* for a rendering or a re-parse: the date rendered and where it came from

vars == <<op, input, args, result, src>>

----------------------------------------------------------------------------
(* Bounds of the model *)

\* month fields of the parsed inputs spell the numbers 0..MaxMonthText
MaxMonthText == 14
\* day fields of the parsed inputs spell the numbers 0..MaxDayText
MaxDayText == 33
\* a format template has at most MaxPieces pieces
MaxPieces == 4

----------------------------------------------------------------------------
(* Constants of the program *)

MAX_DAY_FEBR == 29
MAX_MONTH == 12
MAX_DAY == 31
DAY_CARRY == 30
U8_MAX == 255

FORMATTER_OPTIONS == << <<"Y","Y","Y","Y">>, <<"M","M">>, <<"D","D">> >>

----------------------------------------------------------------------------
(* Text *)

DigitChars == <<"0","1","2","3","4","5","6","7","8","9">>

IsDigit(c) == \E i \in 1..10 : DigitChars[i] = c

DigitVal(c) == (CHOOSE i \in 1..10 : DigitChars[i] = c) - 1

\* u8/u64 Display: the decimal digits of n, no padding
RECURSIVE UIntToString(_)
UIntToString(n) ==
    IF n < 10 THEN <<DigitChars[n + 1]>>
    ELSE UIntToString(n \div 10) \o <<DigitChars[(n % 10) + 1]>>

\* str::split(sep): one piece more than there are separators, empty pieces kept
RECURSIVE SplitFrom(_, _, _)
SplitFrom(s, sep, cur) ==
    IF s = <<>> THEN <<cur>>
    ELSE IF Head(s) = sep THEN <<cur>> \o SplitFrom(Tail(s), sep, <<>>)
    ELSE SplitFrom(Tail(s), sep, Append(cur, Head(s)))

Split(s, sep) == SplitFrom(s, sep, <<>>)

\* char::to_uppercase on the letters the model uses
ToUpperChar(c) ==
    CASE c = "y" -> "Y"
      [] c = "m" -> "M"
      [] c = "d" -> "D"
      [] c = "a" -> "A"
      [] OTHER -> c

\* str::to_uppercase
ToUppercase(s) == [i \in 1..Len(s) |-> ToUpperChar(s[i])]

\* whether text p starts s
StartsWith(s, p) == Len(s) >= Len(p) /\ SubSeq(s, 1, Len(p)) = p

RECURSIVE DropN(_, _)
DropN(s, n) == IF n = 0 \/ s = <<>> THEN s ELSE DropN(Tail(s), n - 1)

\* the first match only
RECURSIVE ReplaceFirst(_, _, _)
ReplaceFirst(s, from, to) ==
    IF s = <<>> THEN <<>>
    ELSE IF StartsWith(s, from) THEN to \o DropN(s, Len(from))
    ELSE <<Head(s)>> \o ReplaceFirst(Tail(s), from, to)

\* str::replace(from, to): every non-overlapping match, left to right
RECURSIVE Replace(_, _, _)
Replace(s, from, to) ==
    IF s = <<>> THEN <<>>
    ELSE IF StartsWith(s, from) THEN to \o Replace(DropN(s, Len(from)), from, to)
    ELSE <<Head(s)>> \o Replace(Tail(s), from, to)

----------------------------------------------------------------------------
(* str::parse::<u8>() and ::<u64>(): an optional leading '+', then one or  *)
(* more digits; Err on empty text, on a lone sign, on any other character  *)
(* and on a value above the type's maximum.  limit = -1 is a type whose    *)
(* maximum no text of the model reaches (u64).                             *)

ParseErr == [ok |-> FALSE, val |-> 0]

RECURSIVE ParseDigits(_, _, _)
ParseDigits(s, acc, limit) ==
    IF s = <<>> THEN [ok |-> TRUE, val |-> acc]
    ELSE IF ~IsDigit(Head(s)) THEN ParseErr
    ELSE LET next == acc * 10 + DigitVal(Head(s))
         IN  IF limit >= 0 /\ next > limit THEN ParseErr
             ELSE ParseDigits(Tail(s), next, limit)

ParseUnsigned(s, limit) ==
    IF s = <<>> THEN ParseErr
    ELSE IF s = <<"+">> \/ s = <<"-">> THEN ParseErr
    ELSE IF Head(s) = "+" THEN ParseDigits(Tail(s), 0, limit)
    ELSE ParseDigits(s, 0, limit)

parse_u8(s) == ParseUnsigned(s, U8_MAX)

parse_u64(s) == ParseUnsigned(s, -1)

\* Result::unwrap_or_default
unwrap_or_default(r) == IF r.ok THEN r.val ELSE 0

----------------------------------------------------------------------------
(* Outcomes *)

Ok(v) == [kind |-> "ok", val |-> v]
Err(type, v) == [kind |-> "err", type |-> type, val |-> v]
Panic(msg) == [kind |-> "panic", msg |-> msg]
NoResult == [kind |-> "none"]
NoSrc == [via |-> "none"]
NoArgs == <<>>

InvalidDay(day) == Err("InvalidDay", day)
InvalidMonth(month) == Err("InvalidMonth", month)
FormatDateError == Err("FormatDateError", 0)

Date(y, m, d) == [year |-> y, month |-> m, day |-> d]

----------------------------------------------------------------------------
(* Scalar constructors *)

Year_new(value) == value

Month_new(value) ==
    IF ~(value \in 1..MAX_MONTH) THEN InvalidMonth(value) ELSE Ok(value)

Day_new(value) ==
    IF ~(value \in 1..MAX_DAY) THEN InvalidDay(value) ELSE Ok(value)

----------------------------------------------------------------------------
(* DateStr::new *)

DateStr_new(year, month, day) ==
    IF month # 2 /\ day > 29 THEN InvalidDay(day)
    ELSE Ok(Date(year, month, day))

----------------------------------------------------------------------------
(* The parsers *)

\* the 30-day months tested with an upper bound one too low
check_date_constraints_short30(month, day) ==
    IF ~(month \in 1..12) THEN <<FALSE, FALSE>>
    ELSE IF month = 2 THEN
        IF ~(day \in 1..MAX_DAY_FEBR) THEN <<TRUE, FALSE>> ELSE <<TRUE, TRUE>>
    ELSE IF month \in {1, 3, 5, 7, 8, 10, 12} THEN
        IF ~(day \in 1..31) THEN <<TRUE, FALSE>> ELSE <<TRUE, TRUE>>
    ELSE IF month \in {4, 6, 9, 11} THEN
        IF ~(day \in 1..(30 - 1)) THEN <<TRUE, FALSE>> ELSE <<TRUE, TRUE>>
    ELSE <<FALSE, FALSE>>

check_date_constraints(month, day) ==
    IF ~(month \in 1..12) THEN <<FALSE, FALSE>>
    ELSE IF month = 2 THEN
        IF ~(day \in 1..MAX_DAY_FEBR) THEN <<TRUE, FALSE>> ELSE <<TRUE, TRUE>>
    ELSE IF month \in {1, 3, 5, 7, 8, 10, 12} THEN
        IF ~(day \in 1..31) THEN <<TRUE, FALSE>> ELSE <<TRUE, TRUE>>
    ELSE IF month \in {4, 6, 9, 11} THEN
        IF ~(day \in 1..(31 - 1)) THEN <<TRUE, FALSE>> ELSE <<TRUE, TRUE>>
    ELSE <<FALSE, FALSE>>

from_iso_str(string) ==
    LET sep_date == Split(string, "-")
    IN  IF Len(sep_date) < 3 THEN Panic("index out of bounds")
        ELSE
        LET year  == Year_new(unwrap_or_default(parse_u64(sep_date[1])))
            month == Month_new(unwrap_or_default(parse_u8(sep_date[2])))
        IN  IF month.kind # "ok" THEN Panic("unwrap on InvalidMonth")
            ELSE IF ~(month.val \in 1..12) THEN Panic("Month is out of bounds")
            ELSE
            LET day == Day_new(unwrap_or_default(parse_u8(sep_date[3])))
            IN  IF day.kind # "ok" THEN Panic("unwrap on InvalidDay")
                ELSE
                LET ok == check_date_constraints(month.val, day.val)
                IN  IF ~ok[1] THEN Panic("Month is out of bounds")
                    ELSE IF ~ok[2] THEN Panic("Day is out of bounds for month")
                    ELSE Ok(Date(year, month.val, day.val))

\* the month range tested from 0
try_from_iso_str_month0(string) ==
    LET sep_date == Split(string, "-")
    IN  IF Len(sep_date) < 3 THEN Panic("index out of bounds")
        ELSE
        LET year  == unwrap_or_default(parse_u64(sep_date[1]))
            month == unwrap_or_default(parse_u8(sep_date[2]))
        IN  IF ~(month \in 0..12) THEN InvalidMonth(month)
            ELSE
            LET day == unwrap_or_default(parse_u8(sep_date[3]))
            IN  IF ~(day \in 1..31) THEN InvalidDay(day)
                ELSE Ok(Date(Year_new(year), month, day))

try_from_iso_str(string) ==
    LET sep_date == Split(string, "-")
    IN  IF Len(sep_date) < 3 THEN Panic("index out of bounds")
        ELSE
        LET year  == unwrap_or_default(parse_u64(sep_date[1]))
            month == unwrap_or_default(parse_u8(sep_date[2]))
        IN  IF ~(month \in 1..12) THEN InvalidMonth(month)
            ELSE
            LET day == unwrap_or_default(parse_u8(sep_date[3]))
            IN  IF ~(day \in 1..31) THEN InvalidDay(day)
                ELSE Ok(Date(Year_new(year), month, day))

----------------------------------------------------------------------------
(* Display.  DateStr renders "{}-{:02}-{:02}" of its year, month and day.  *)
(* The fmt of Year, Month and Day is write!(f, "{}", &self.0): it formats  *)
(* the number with a fresh "{}" and so does not read the width and the     *)
(* zero flag of the formatter it is handed.                                *)

Year_fmt(value, width) == UIntToString(value)

Month_fmt(value, width) == UIntToString(value)

Day_fmt(value, width) == UIntToString(value)

DateStr_to_string(d) ==
    Year_fmt(d.year, 0) \o <<"-">> \o Month_fmt(d.month, 2) \o <<"-">> \o Day_fmt(d.day, 2)

----------------------------------------------------------------------------
(* DateFormat and the free-form formatter *)

\* the pieces compared with the tokens as they are written
DateFormat_from_string_cased(format, separator) ==
    LET sep    == IF separator = "None" THEN "-" ELSE separator
        pieces == Split(format, sep)
    IN  IF \E o \in 1..Len(FORMATTER_OPTIONS) :
              ~(\E i \in 1..Len(pieces) : pieces[i] = FORMATTER_OPTIONS[o])
        THEN FormatDateError
        ELSE Ok([formatter |-> ToUppercase(format)])

\* separator is "None" or Some(char), given as the char
DateFormat_from_string(format, separator) ==
    LET sep    == IF separator = "None" THEN "-" ELSE separator
        pieces == Split(format, sep)
    IN  IF \E o \in 1..Len(FORMATTER_OPTIONS) :
              ~(\E i \in 1..Len(pieces) : ToUppercase(pieces[i]) = FORMATTER_OPTIONS[o])
        THEN FormatDateError
        ELSE Ok([formatter |-> ToUppercase(format)])

format(self, fmt) ==
    Replace(Replace(Replace(fmt.formatter,
                            <<"Y","Y","Y","Y">>, Year_fmt(self.year, 0)),
                    <<"M","M">>, Month_fmt(self.month, 0)),
            <<"D","D">>, Day_fmt(self.day, 0))

try_format(self, fmt) ==
    Ok(Replace(Replace(Replace(fmt.formatter,
                               <<"Y","Y","Y","Y">>, Year_fmt(self.year, 0)),
                       <<"M","M">>, Month_fmt(self.month, 0)),
               <<"D","D">>, Day_fmt(self.day, 0)))

----------------------------------------------------------------------------
(* Scalar addition with carry.  The sum is a u8: overflow records whether  *)
(* self.0 + rhs.0 leaves the 8 bits, and the sum kept is the wrapped one.  *)

\* the loop run while the sum reaches the modulus
RECURSIVE CarryLoopGeq(_, _, _)
CarryLoopGeq(sum, carry, modulus) ==
    IF sum >= modulus THEN CarryLoopGeq(sum - modulus, carry + 1, modulus)
    ELSE <<sum, carry>>

RECURSIVE CarryLoop(_, _, _)
CarryLoop(sum, carry, modulus) ==
    IF sum > modulus THEN CarryLoop(sum - modulus, carry + 1, modulus)
    ELSE <<sum, carry>>

Day_add(self, rhs) ==
    LET raw == self + rhs
        out == CarryLoop(raw % (U8_MAX + 1), 0, DAY_CARRY)
    IN  [day |-> out[1], carry |-> out[2], overflow |-> raw > U8_MAX]

Month_add(self, rhs) ==
    LET raw == self + rhs
        out == CarryLoop(raw % (U8_MAX + 1), 0, MAX_MONTH)
    IN  [month |-> out[1], carry |-> Year_new(out[2]), overflow |-> raw > U8_MAX]

----------------------------------------------------------------------------
(* Scalar subtraction.  The difference is taken as an i16 and stored back  *)
(* with `as u8`, which keeps its low 8 bits.                               *)

as_u8(x) == ((x % (U8_MAX + 1)) + (U8_MAX + 1)) % (U8_MAX + 1)

\* while sub * -1 > 30 { mos = mos + 1; sub = sub + 30; }
RECURSIVE DayBorrowLoop(_, _)
DayBorrowLoop(sub, mos) ==
    IF sub * (-1) > DAY_CARRY THEN DayBorrowLoop(sub + DAY_CARRY, mos + 1)
    ELSE <<sub, mos>>

Day_sub(self, rhs) ==
    LET sub == self - rhs
    IN  IF sub > 0 THEN [day |-> as_u8(sub), borrow |-> 0]
        ELSE LET out == DayBorrowLoop(sub, 0)
             IN  [day |-> as_u8(out[1]), borrow |-> out[2]]

\* while sub > 12 { yrs = yrs + 1; sub = sub - 12; }
RECURSIVE MonthBorrowLoop(_, _)
MonthBorrowLoop(sub, yrs) ==
    IF sub > MAX_MONTH THEN MonthBorrowLoop(sub - MAX_MONTH, yrs + 1)
    ELSE <<sub, yrs>>

Month_sub(self, rhs) ==
    LET sub == self - rhs
    IN  IF sub > 0 THEN [month |-> as_u8(sub), borrow |-> Year_new(0)]
        ELSE LET out == MonthBorrowLoop(sub * (-1), 0)
             IN  [month |-> as_u8(out[1]), borrow |-> Year_new(out[2])]

----------------------------------------------------------------------------
(* DateStr + DateStr.  Days and months are summed as u8 numbers: the day   *)
(* loop runs while day > 31, the month loop while months > 12.             *)

RECURSIVE DateDayLoop(_, _)
DateDayLoop(day, add_mo) ==
    IF day > 31 THEN DateDayLoop(day - 31, add_mo + 1)
    ELSE <<day, add_mo>>

RECURSIVE DateMonthLoop(_, _)
DateMonthLoop(months, add_year) ==
    IF months > 12 THEN DateMonthLoop(months - 12, add_year + 1)
    ELSE <<months, add_year>>

DateStr_add(self, rhs) ==
    LET d == DateDayLoop((self.day + rhs.day) % (U8_MAX + 1), 0)
        m == DateMonthLoop((self.month + rhs.month + d[2]) % (U8_MAX + 1), 0)
    IN  Date(self.year + rhs.year + m[2], m[1], d[1])

----------------------------------------------------------------------------
(* The inputs the calls are made with *)

\* n (below 10) written with a leading zero
Pad2(n) == <<"0">> \o UIntToString(n)

RECURSIVE Join(_, _)
Join(fields, sep) ==
    IF Len(fields) = 0 THEN <<>>
    ELSE IF Len(fields) = 1 THEN fields[1]
    ELSE fields[1] \o <<sep>> \o Join(Tail(fields), sep)

YearTexts == { <<"2","0","2","3">>, <<"5">>, <<>>, <<"a","b">> }

MonthTexts ==
    {UIntToString(n) : n \in 0..MaxMonthText} \cup {Pad2(n) : n \in 1..9}
    \cup { <<"5","5">>, <<"2","5","6">>, <<>>, <<"a","b">>, <<"+","5">> }

DayTexts ==
    {UIntToString(n) : n \in 0..MaxDayText} \cup {Pad2(n) : n \in 1..9}
    \cup { <<"2","5","7">>, <<>>, <<"x">>, <<"+","7">> }

\* the fields a caller joins with '-': three, or two, or four (a doubled
\* separator is an empty field followed by one more)
FieldLists ==
    {<<y, m, d>> : y \in YearTexts, m \in MonthTexts, d \in DayTexts}
    \cup {<<y, m>> : y \in YearTexts, m \in { <<"1","2">>, <<>> }}
    \cup {<<y, m, d, e>> : y \in { <<"2","0","2","3">> },
                           m \in { <<>>, <<"1","2">>, <<"2">> },
                           d \in { <<>>, <<"1","1">>, <<"3","0">> },
                           e \in { <<"0","2">>, <<"3">> }}

NewYears == {0, 5, 2023}

TemplatePieces ==
    { <<"d","d">>, <<"m","m">>, <<"y","y","y","y">>, <<"M","m">>,
      <<"y","y","a","y">>, <<"2","0">> }

Joiners == {"-", "_"}

Separators == {"None", "_", "/"}

PieceLists == UNION {[1..n -> TemplatePieces] : n \in 1..MaxPieces}

FormatDates == {Date(y, m, d) : y \in {5, 2022}, m \in {1, 12}, d \in {2, 28, 29}}

ValidDays == {v \in 0..U8_MAX : Day_new(v).kind = "ok"}

ValidMonths == {v \in 0..U8_MAX : Month_new(v).kind = "ok"}

\* the dates added: dates from_iso_str returns
AddDates(years) ==
    {Date(y, m, d) : y \in years, m \in {1, 2, 11, 12}, d \in ValidDays}
    \cap {dt \in [year : years, month : ValidMonths, day : ValidDays] :
            check_date_constraints(dt.month, dt.day) = <<TRUE, TRUE>>}

----------------------------------------------------------------------------
(* The calls.  The library keeps no state between calls: a behaviour is   *)
(* one call on inputs drawn from the sets above, followed by the calls     *)
(* made on what it returned.                                               *)

Init ==
    /\ op = "init"
    /\ input = <<>>
    /\ args = NoArgs
    /\ result = NoResult
    /\ src = NoSrc

\* Month::new(m)?, Day::new(d)?, then DateStr::new(Year::new(y), month, day)
New ==
    /\ op = "init"
    /\ \E y \in NewYears, m \in 0..MaxMonthText, d \in 0..MaxDayText :
        LET month == Month_new(m)
            day   == Day_new(d)
        IN  /\ op' = "new"
            /\ input' = <<>>
            /\ args' = <<y, m, d>>
            /\ result' = IF month.kind # "ok" THEN month
                         ELSE IF day.kind # "ok" THEN day
                         ELSE DateStr_new(Year_new(y), month.val, day.val)
            /\ src' = NoSrc

\* DateStr::from_iso_str(s) and s.to_datestr()
FromIsoStr ==
    /\ op = "init"
    /\ \E f \in FieldLists :
        /\ op' = "from_iso_str"
        /\ input' = Join(f, "-")
        /\ args' = f
        /\ result' = from_iso_str(Join(f, "-"))
        /\ src' = NoSrc

\* DateStr::try_from_iso_str(s) and s.try_to_datestr()
TryFromIsoStr ==
    /\ op = "init"
    /\ \E f \in FieldLists :
        /\ op' = "try_from_iso_str"
        /\ input' = Join(f, "-")
        /\ args' = f
        /\ result' = try_from_iso_str(Join(f, "-"))
        /\ src' = NoSrc

\* date.to_string() of the date a constructor or parser has just returned
Render ==
    /\ op \in {"new", "from_iso_str", "try_from_iso_str"}
    /\ src = NoSrc
    /\ result.kind = "ok"
    /\ op' = "to_string"
    /\ input' = <<>>
    /\ args' = NoArgs
    /\ result' = Ok(DateStr_to_string(result.val))
    /\ src' = [via |-> op, input |-> input, fields |-> args, date |-> result.val]

\* DateStr::from_iso_str of the text to_string has just returned
Reparse ==
    /\ op = "to_string"
    /\ op' = "from_iso_str"
    /\ input' = result.val
    /\ args' = NoArgs
    /\ result' = from_iso_str(result.val)
    /\ src' = src

\* DateFormat::from_string(template, separator)
FromString ==
    /\ op = "init"
    /\ \E p \in PieceLists, j \in Joiners, sep \in Separators :
        /\ op' = "from_string"
        /\ input' = Join(p, j)
        /\ args' = <<sep, p, j>>
        /\ result' = DateFormat_from_string(Join(p, j), sep)
        /\ src' = NoSrc

\* date.format(fmt) with the DateFormat from_string has just returned
Format ==
    /\ op = "from_string"
    /\ result.kind = "ok"
    /\ \E d \in FormatDates :
        /\ op' = "format"
        /\ input' = result.val.formatter
        /\ args' = <<d>>
        /\ result' = Ok(format(d, result.val))
        /\ src' = NoSrc

\* date.try_format(fmt) with the DateFormat from_string has just returned
TryFormat ==
    /\ op = "from_string"
    /\ result.kind = "ok"
    /\ \E d \in FormatDates :
        /\ op' = "try_format"
        /\ input' = result.val.formatter
        /\ args' = <<d>>
        /\ result' = try_format(d, result.val)
        /\ src' = NoSrc

\* Day::new(a)? + Day::new(b)?
DayAdd ==
    /\ op = "init"
    /\ \E a \in ValidDays, b \in ValidDays :
        /\ op' = "day_add"
        /\ input' = <<>>
        /\ args' = <<a, b>>
        /\ result' = Ok(Day_add(a, b))
        /\ src' = NoSrc

\* Month::new(a)? + Month::new(b)?
MonthAdd ==
    /\ op = "init"
    /\ \E a \in ValidMonths, b \in ValidMonths :
        /\ op' = "month_add"
        /\ input' = <<>>
        /\ args' = <<a, b>>
        /\ result' = Ok(Month_add(a, b))
        /\ src' = NoSrc

\* Day::new(a)? - Day::new(b)?
DaySub ==
    /\ op = "init"
    /\ \E a \in ValidDays, b \in ValidDays :
        /\ op' = "day_sub"
        /\ input' = <<>>
        /\ args' = <<a, b>>
        /\ result' = Ok(Day_sub(a, b))
        /\ src' = NoSrc

\* Month::new(a)? - Month::new(b)?
MonthSub ==
    /\ op = "init"
    /\ \E a \in ValidMonths, b \in ValidMonths :
        /\ op' = "month_sub"
        /\ input' = <<>>
        /\ args' = <<a, b>>
        /\ result' = Ok(Month_sub(a, b))
        /\ src' = NoSrc

\* a + b of two dates
DateAdd ==
    /\ op = "init"
    /\ \E a \in AddDates({2023}), b \in AddDates({0, 5}) :
        /\ op' = "date_add"
        /\ input' = <<>>
        /\ args' = <<a, b>>
        /\ result' = Ok(DateStr_add(a, b))
        /\ src' = NoSrc

Next ==
    \/ New
    \/ FromIsoStr
    \/ TryFromIsoStr
    \/ Render
    \/ Reparse
    \/ FromString
    \/ Format
    \/ TryFormat
    \/ DayAdd
    \/ MonthAdd
    \/ DaySub
    \/ MonthSub
    \/ DateAdd

Spec == Init /\ [][Next]_vars

----------------------------------------------------------------------------
(* What the claims speak of *)

\* the day ceiling of a month
Ceiling(month) ==
    IF month = 2 THEN 29
    ELSE IF month \in {4, 6, 9, 11} THEN 30
    ELSE 31

\* a decimal field: one or more digits
IsDecimal(f) == f # <<>> /\ \A i \in 1..Len(f) : IsDigit(f[i])

RECURSIVE DecVal(_)
DecVal(f) ==
    IF f = <<>> THEN 0
    ELSE DecVal(SubSeq(f, 1, Len(f) - 1)) * 10 + DigitVal(f[Len(f)])

\* the number a field spells (its sign, if written, is '+'), -1 when it spells none
NumberOf(f) ==
    IF IsDecimal(f) THEN DecVal(f)
    ELSE IF Len(f) > 1 /\ f[1] = "+" /\ IsDecimal(Tail(f)) THEN DecVal(Tail(f))
    ELSE -1

\* the number an 8-bit error payload can carry for a field: the number it
\* spells when that fits, 0 otherwise
Carried(f) == IF NumberOf(f) \in 0..U8_MAX THEN NumberOf(f) ELSE 0

\* two characters that are the same letter, whatever their case
SameLetter(a, b) ==
    \/ a = b
    \/ <<a, b>> \in { <<"y","Y">>, <<"Y","y">>, <<"m","M">>, <<"M","m">>,
                      <<"d","D">>, <<"D","d">>, <<"a","A">>, <<"A","a">> }

EqIgnoreCase(s, t) == Len(s) = Len(t) /\ \A i \in 1..Len(s) : SameLetter(s[i], t[i])

IsLowerLetter(c) == c \in {"y", "m", "d", "a"}

Tokens == { <<"Y","Y","Y","Y">>, <<"M","M">>, <<"D","D">> }

\* a template read once, left to right: every token gives way to its number,
\* every other character stays
RECURSIVE Expand(_, _)
Expand(t, d) ==
    IF t = <<>> THEN <<>>
    ELSE IF StartsWith(t, <<"Y","Y","Y","Y">>) THEN UIntToString(d.year) \o Expand(DropN(t, 4), d)
    ELSE IF StartsWith(t, <<"M","M">>) THEN UIntToString(d.month) \o Expand(DropN(t, 2), d)
    ELSE IF StartsWith(t, <<"D","D">>) THEN UIntToString(d.day) \o Expand(DropN(t, 2), d)
    ELSE <<Head(t)>> \o Expand(Tail(t), d)

\* a canonical date string: three decimal fields, the year with no leading
\* zero, the month and the day of two digits
IsCanonical(fields) ==
    /\ Len(fields) = 3
    /\ \A i \in 1..3 : IsDecimal(fields[i])
    /\ (Len(fields[1]) = 1 \/ fields[1][1] # "0")
    /\ Len(fields[2]) = 2
    /\ Len(fields[3]) = 2

----------------------------------------------------------------------------
(* The claims *)

\* C1: DateStr::new on a Month in [1,12] and a Day in [1,31] returns Ok exactly
\* when day <= Ceiling(month), and otherwise Err(InvalidDay) carrying the day.
C1_NewSucceedsWithinCeiling ==
    (op = "new" /\ args[2] \in 1..12 /\ args[3] \in 1..31) =>
        IF args[3] <= Ceiling(args[2])
        THEN result = Ok(Date(args[1], args[2], args[3]))
        ELSE result = InvalidDay(args[3])

\* C2: from_iso_str on three decimal fields returns the date of the three
\* numbers when the month is in [1,12] and the day in [1, Ceiling(month)], and
\* panics otherwise.
C2_FromIsoStrAcceptsValidDates ==
    (op = "from_iso_str" /\ src = NoSrc /\ Len(args) = 3
        /\ \A i \in 1..3 : IsDecimal(args[i])) =>
        LET y == DecVal(args[1])
            m == DecVal(args[2])
            d == DecVal(args[3])
        IN  IF m \in 1..12 /\ d \in 1..Ceiling(m)
            THEN result = Ok(Date(y, m, d))
            ELSE result.kind = "panic"

\* C2, its case: day 30 of a 30-day month is accepted
C2_Day30Accepted ==
    /\ op = "from_iso_str"
    /\ args = << <<"2","0","2","3">>, <<"0","4">>, <<"3","0">> >>
    /\ result = Ok(Date(2023, 4, 30))

C4_TryAgreesWithFromIsoStr ==
    (op = "try_from_iso_str" /\ Len(args) >= 3) =>
        LET p == from_iso_str(input)
        IN  /\ (result.kind = "err") <=> (p.kind = "panic")
            /\ (p.kind = "ok" => result = p)
            /\ (result.kind = "ok" => result.val.day <= Ceiling(result.val.month))

\* C5: try_from_iso_str returns Err(InvalidParsing(text)), text being the
\* offending field, whenever the year, month or day field spells no
\* non-negative integer.
C5_TryReportsInvalidParsing ==
    (op = "try_from_iso_str" /\ Len(args) >= 3
        /\ \E i \in 1..3 : NumberOf(args[i]) = -1) =>
        /\ result.kind = "err"
        /\ result.type = "InvalidParsing"
        /\ \E i \in 1..3 : NumberOf(args[i]) = -1 /\ result.val = args[i]

\* C6: a date returned by DateStr::new, from_iso_str or try_from_iso_str,
\* rendered by to_string and parsed by from_iso_str, comes back equal.
C6_RoundTrip ==
    (op = "from_iso_str" /\ src.via \in {"new", "from_iso_str", "try_from_iso_str"}) =>
        result = Ok(src.date)

\* C7: to_string renders YEAR-MM-DD with month and day zero-padded to two
\* digits: a canonical string parsed by from_iso_str renders as itself.
C7_CanonicalRendering ==
    (op = "to_string" /\ src.via = "from_iso_str" /\ IsCanonical(src.fields)) =>
        result = Ok(src.input)

\* C8: DateFormat::from_string returns Ok exactly when each of YYYY, MM and DD
\* equals, whatever the case, one of the pieces of the template between the
\* separators (default '-'); the formatter is then the template in upper
\* case; otherwise it returns Err(FormatDateError).
C8_FromStringNeedsEveryToken ==
    (op = "from_string") =>
        LET sep    == IF args[1] = "None" THEN "-" ELSE args[1]
            pieces == IF sep = args[3] THEN {args[2][i] : i \in 1..Len(args[2])}
                      ELSE {input}
        IN  IF \A tok \in Tokens : \E e \in pieces : EqIgnoreCase(e, tok)
            THEN /\ result.kind = "ok"
                 /\ EqIgnoreCase(result.val.formatter, input)
                 /\ \A i \in 1..Len(input) : ~IsLowerLetter(result.val.formatter[i])
            ELSE result = FormatDateError

\* C8, its case: a mixed-case template with every token is accepted and
\* stored in upper case
C8_MixedCaseAccepted ==
    /\ op = "from_string"
    /\ input = <<"d","d","-","M","m","-","y","y","y","y">>
    /\ args[1] = "None"
    /\ result = Ok([formatter |-> <<"D","D","-","M","M","-","Y","Y","Y","Y">>])

C10_ScalarAdditionCarries ==
    /\ (op = "day_add") =>
          /\ result.val.day \in 1..30
          /\ result.val.day + 30 * result.val.carry = args[1] + args[2]
          /\ ~result.val.overflow
    /\ (op = "month_add") =>
          /\ result.val.month \in 1..12
          /\ result.val.month + 12 * result.val.carry = args[1] + args[2]
          /\ ~result.val.overflow

\* C10, its case: Day(25) + Day(10) is (Day(5), carry 1)
C10_Day25Plus10 ==
    /\ op = "day_add"
    /\ args = <<25, 10>>
    /\ result.val.day = 5
    /\ result.val.carry = 1

\* the months a + b + carry reduced into [1,12] by subtracting 12, with the
\* number of subtractions
RECURSIVE ReduceBy12(_, _)
ReduceBy12(months, n) ==
    IF months > 12 THEN ReduceBy12(months - 12, n + 1) ELSE <<months, n>>

\* C11: a + b of two valid dates has the day and the day-carry of
\* Day(a.day) + Day(b.day) under the 30-day threshold, the month
\* a.month + b.month + day-carry reduced into [1,12] by subtracting 12, and
\* the year a.year + b.year plus the number of reductions.
C11_DateAddComposesScalarCarries ==
    (op = "date_add") =>
        LET a  == args[1]
            b  == args[2]
            dd == Day_add(a.day, b.day)
            mm == ReduceBy12(a.month + b.month + dd.carry, 0)
        IN  result = Ok(Date(a.year + b.year + mm[2], mm[1], dd.day))

\* C12: Day(a) - Day(b) for valid days is a - b with borrow 0 when a > b, and
\* otherwise a - b raised by 30 per borrow until positive, so the Day is in
\* [1,30]; Month(a) - Month(b) for valid months is likewise a Month in [1,12],
\* borrowing over 12 when a <= b.
C12_ScalarSubtractionInRange ==
    /\ (op = "day_sub") =>
          /\ result.val.day \in 1..30
          /\ result.val.day = args[1] - args[2] + 30 * result.val.borrow
          /\ (args[1] > args[2] => result.val.borrow = 0)
    /\ (op = "month_sub") =>
          /\ result.val.month \in 1..12
          /\ result.val.month = args[1] - args[2] + 12 * result.val.borrow
          /\ (args[1] > args[2] => result.val.borrow = 0)

====
